---- MODULE Spec2Model ----
(***************************************************************************)
(* PestAI analysis microservice (src/main.py): the request path of         *)
(* POST /api/v8/analyze-image.                                             *)
(*                                                                         *)
(* The endpoint function is wrapped, outermost first, by                   *)
(*   @limiter.limit("15/minute")   slowapi, fixed window, in-memory store  *)
(*   @cache(expire=86400, ...)     fastapi-cache, InMemoryBackend          *)
(*   analyze_image_endpoint        content-type check, upstream call       *)
(* and the value it returns is validated by FastAPI against                *)
(* response_model=AIAnalysisResponse after all three have returned.        *)
(* The upstream call is wrapped by tenacity's @retry.                      *)
(*                                                                         *)
(* The libraries are modelled by the behaviour the decorators are used     *)
(* for: the limiter counts one hit per request and identity in a fixed     *)
(* window and raises RateLimitExceeded above the cap; the cache decorator  *)
(* derives the key with key_builder, probes the backend, on a miss calls   *)
(* the function and stores what it returns, and lets an exception pass     *)
(* without storing; @retry re-calls on the listed exception types until    *)
(* the stop condition and then raises RetryError (no reraise=True).        *)
(***************************************************************************)
EXTENDS Integers, Sequences, FiniteSets, TLC

\* ---------------------------------------------------------------- constants

\* @limiter.limit("15/minute"): the cap and the window length in seconds.
RateCap == 15
RateWindow == 60
\* @cache(expire=86400)
Expire == 86400
\* stop_after_attempt(3)
MaxAttempts == 3
WaitMultiplier == 1
WaitMin == 2
WaitMax == 10

\* ------------------------------------------------------------------- bounds

\* Under Spec the clock never passes MaxTime and one identity sends at most
\* MaxBurst requests per limiter window.
MaxTime == 172801
MaxBurst == 3
\* Under SpecRate the clock never passes MaxRateTime and one identity sends at
\* most MaxBucket requests per limiter window.
MaxRateTime == 60
MaxBucket == 16
MaxRestarts == 1

\* ------------------------------------------------- the response schema (53-95)

SeverityLevel == {"LOW", "MEDIUM", "HIGH", "CRITICAL"}

Has(x, fields) == fields \subseteq DOMAIN x

InUnit(v) == v >= 0 /\ v <= 1

BoundingBox(x) ==
    /\ Has(x, {"x_min", "y_min", "x_max", "y_max"})
    /\ InUnit(x.x_min) /\ InUnit(x.y_min) /\ InUnit(x.x_max) /\ InUnit(x.y_max)

SolutionDetail(x) == Has(x, {"solution", "details"})

SolutionDetails(list) == \A i \in 1..Len(list) : SolutionDetail(list[i])

RecommendationsGroup(x) ==
    /\ Has(x, {"biological", "chemical", "cultural"})
    /\ SolutionDetails(x.biological)
    /\ SolutionDetails(x.chemical)
    /\ SolutionDetails(x.cultural)

DetailedInfo(x) ==
    /\ Has(x, {"description", "impact", "recommendations", "knowledgeBaseTags"})
    /\ RecommendationsGroup(x.recommendations)

Detection(x) ==
    /\ Has(x, {"className", "confidenceScore", "severity", "boundingBox", "details"})
    /\ x.severity \in SeverityLevel
    /\ BoundingBox(x.boundingBox)
    /\ DetailedInfo(x.details)

\* subjectType is declared str: any string passes.
AnalysisSubject(x) == Has(x, {"subjectType", "description", "confidence"})

AIAnalysisResponse(x) ==
    /\ Has(x, {"subject", "detections"})
    /\ AnalysisSubject(x.subject)
    /\ \A i \in 1..Len(x.detections) : Detection(x.detections[i])

\* What response_model sends for a valid value: the declared fields only, an
\* absent Optional source filled with null.
DumpSolution(x) ==
    [solution |-> x.solution, details |-> x.details,
     source |-> IF "source" \in DOMAIN x THEN x.source ELSE "null"]

DumpSolutions(list) == [i \in 1..Len(list) |-> DumpSolution(list[i])]

DumpDetection(x) ==
    [className |-> x.className, confidenceScore |-> x.confidenceScore,
     severity |-> x.severity,
     boundingBox |-> [x_min |-> x.boundingBox.x_min, y_min |-> x.boundingBox.y_min,
                      x_max |-> x.boundingBox.x_max, y_max |-> x.boundingBox.y_max],
     details |-> [description |-> x.details.description,
                  impact |-> x.details.impact,
                  recommendations |->
                      [biological |-> DumpSolutions(x.details.recommendations.biological),
                       chemical |-> DumpSolutions(x.details.recommendations.chemical),
                       cultural |-> DumpSolutions(x.details.recommendations.cultural)],
                  knowledgeBaseTags |-> x.details.knowledgeBaseTags]]

Dump(x) ==
    [subject |-> [subjectType |-> x.subject.subjectType,
                  description |-> x.subject.description,
                  confidence |-> x.subject.confidence],
     detections |-> [i \in 1..Len(x.detections) |-> DumpDetection(x.detections[i])]]

\* ------------------------------------------- the upstream's possible answers

UnitBox == [x_min |-> 0, y_min |-> 0, x_max |-> 1, y_max |-> 1]

RustDetails ==
    [description |-> "rust pustules", impact |-> "yield loss",
     recommendations |->
         [biological |-> <<[solution |-> "antagonist", details |-> "spray"]>>,
          chemical |-> <<>>,
          cultural |-> <<>>],
     knowledgeBaseTags |-> <<"rust">>,
     note |-> "extra"]

GoodDoc ==
    [subject |-> [subjectType |-> "PLANT", description |-> "Zea mays", confidence |-> 1],
     detections |-> <<[className |-> "rust", confidenceScore |-> 1, severity |-> "HIGH",
                       boundingBox |-> UnitBox, details |-> RustDetails]>>]

\* syntactically valid JSON whose detection has no severity
NoSeverityDoc ==
    [subject |-> [subjectType |-> "PLANT", description |-> "Zea mays", confidence |-> 1],
     detections |-> <<[className |-> "rust", confidenceScore |-> 1,
                       boundingBox |-> UnitBox, details |-> RustDetails]>>]

\* a complete analysis whose subjectType is none of PLANT, PEST, UNKNOWN
OddSubjectDoc ==
    [subject |-> [subjectType |-> "FUNGUS", description |-> "Puccinia", confidence |-> 1],
     detections |-> <<>>]

NoDoc == [none |-> TRUE]

Returned(text) == [kind |-> "text", text |-> text]
Raised(exc) == [kind |-> "raise", exc |-> exc]
NoOutcome == [kind |-> "none"]

JsonText(doc) == [json |-> doc]
ProseText == [prose |-> "Voici l'analyse"]

TransientErrors == {"ResourceExhausted", "ServiceUnavailable", "TimeoutError"}
GoogleAPICallErrors ==
    {"ResourceExhausted", "ServiceUnavailable", "PermissionDenied",
     "InvalidArgument", "InternalServerError"}

AllOutcomes ==
    {Returned(JsonText(GoodDoc)), Returned(JsonText(NoSeverityDoc)),
     Returned(JsonText(OddSubjectDoc)), Returned(ProseText)}
    \cup {Raised(e) : e \in TransientErrors \cup GoogleAPICallErrors \cup {"ValueError"}}

\* -------------------------------------------------------------------- state

Slots == {1, 2}

VARIABLES
    now,      \* time.time(), in seconds
    buckets,  \* the limiter's storage: identity -> [count, expiry]
    cache,    \* InMemoryBackend._store: key -> [data, ttl_ts] (+ history)
    req,      \* per request task: position, locals and the response sent
    seen,     \* history: per identity, the window its requests fall into
    boot      \* history: the last process start, and the keys it dropped

vars == <<now, buckets, cache, req, seen, boot>>

Clients == {"10.0.0.1", "10.0.0.2"}

ImageA == <<137, 80>>
ImageB == <<255, 216>>

Upload(filename, content_type, content) ==
    [filename |-> filename, content_type |-> content_type, content |-> content]

LeafJpeg == Upload("leaf.jpg", "image/jpeg", ImageA)
CopyPng == Upload("copy.png", "image/png", ImageA)
OtherJpeg == Upload("leaf.jpg", "image/jpeg", ImageB)
ScanPdf == Upload("scan.pdf", "application/pdf", ImageA)

NoUpload == [none |-> TRUE]
NoKey == <<>>

Idle ==
    [pc |-> "idle", client |-> "none", upload |-> NoUpload,
     key |-> NoKey, probe |-> "none", calls |-> 0, fails |-> 0,
     last |-> NoOutcome, raised |-> "none", result |-> NoDoc,
     status |-> 0, body |-> NoDoc, ref |-> NoDoc, stale |-> "no",
     waits |-> <<>>]

Init ==
    /\ now = 0
    /\ buckets = [c \in Clients |-> [count |-> 0, expiry |-> 0]]
    /\ cache = <<>>
    /\ req = [s \in Slots |-> Idle]
    /\ seen = [c \in Clients |-> [start |-> 0, n |-> 0, cached |-> TRUE]]
    /\ boot = [at |-> 0, n |-> 0, dropped |-> {}]

\* ------------------------------------------------------ the limiter (36, 179)

\* One hit of the fixed-window counter: a bucket whose expiry has passed is
\* gone, and the first hit of a new bucket sets its expiry.
LimiterHit(bucket, t) ==
    IF bucket.expiry <= t
    THEN [count |-> 1, expiry |-> t + RateWindow]
    ELSE [count |-> bucket.count + 1, expiry |-> bucket.expiry]

\* key_func=get_remote_address: the bucket a request counts against.
BucketOf(client) == client

\* the cap applied one request early
OverLimitEarly(bucket) == bucket.count >= RateCap

\* RateLimitExceeded is raised when the counter, this hit included, passes the cap.
OverLimit(bucket) == bucket.count > RateCap

\* ------------------------------------------------------- the cache (164-180)

Namespace == "pestai-analysis"

\* hashlib.sha256(...).hexdigest(): one digest per byte string, no collisions
\* among the byte strings of the model.
sha256(bytes) == <<"sha256", bytes>>

\* UploadFile.file.read() from position pos.
FileRead(content, pos) == SubSeq(content, pos + 1, Len(content))

\* the declared content type hashed into the key
key_with_type(namespace, file) ==
    <<namespace, sha256(FileRead(file.content, 0)), file.content_type>>

image_key_builder(namespace, file) ==
    LET file_content == FileRead(file.content, 0)
        file_hash == sha256(file_content)
    IN  <<namespace, file_hash>>

\* The coder of the cache: json.dumps on store, json.loads on a hit.
Encode(value) == JsonText(value)
Decode(data) == data.json

\* an entry that never ages
FreshForever(entry, t) == TRUE

\* an entry dropped at the second its TTL ends
FreshBefore(entry, t) == entry.ttl_ts > t

\* InMemoryBackend: an entry is served while ttl_ts >= now; a probe that finds
\* it older deletes it.
Fresh(entry, t) == entry.ttl_ts >= t

CacheHit(c, key, t) == key \in DOMAIN c /\ Fresh(c[key], t)

CacheProbe(c, key, t) ==
    IF key \in DOMAIN c /\ ~Fresh(c[key], t)
    THEN [k \in DOMAIN c \ {key} |-> c[k]]
    ELSE c

\* a store that leaves an entry already under the key in place
CacheSetOnce(c, key, value, t, by, sent) ==
    c @@ (key :> [data |-> Encode(value), ttl_ts |-> t + Expire,
                  src |-> by, at |-> t, first |-> sent])

\* backend.set(cache_key, coder.encode(result), expire). src, at and first are
\* history: the upload that stored the entry, when, and what it was answered.
CacheSet(c, key, value, t, by, sent) ==
    (key :> [data |-> Encode(value), ttl_ts |-> t + Expire,
             src |-> by, at |-> t, first |-> sent]) @@ c

\* --------------------------------------------------- the handler (173-222)

AcceptedTypes == {"image/jpeg", "image/png"}

\* no response_model: the returned value sent as it is
send_unvalidated(value) == [status |-> 200, body |-> value, raised |-> "none"]

\* response_model=AIAnalysisResponse: what is sent for the value the wrapped
\* endpoint returned.
serialize_response(value) ==
    IF AIAnalysisResponse(value)
    THEN [status |-> 200, body |-> Dump(value), raised |-> "none"]
    ELSE [status |-> 500, body |-> NoDoc, raised |-> "ResponseValidationError"]

\* retry_if_exception_type((ResourceExhausted, ServiceUnavailable, TimeoutError))
RetryOn == {"ResourceExhausted", "ServiceUnavailable", "TimeoutError"}

\* the exponent counted from the attempt number, not from one below it
wait_exponential_from_one(attempt_number) ==
    LET result == WaitMultiplier * 2 ^ attempt_number
        low == IF result < WaitMax THEN result ELSE WaitMax
    IN  IF low > WaitMin THEN low ELSE WaitMin

\* wait_exponential(multiplier=1, min=2, max=10): the seconds slept after the
\* failure of attempt attempt_number: multiplier * 2 ** (attempt_number - 1),
\* not above max and then not below min.
wait_exponential(attempt_number) ==
    LET result == WaitMultiplier * 2 ^ (attempt_number - 1)
        low == IF result < WaitMax THEN result ELSE WaitMax
    IN  IF low > WaitMin THEN low ELSE WaitMin

\* stop_after_attempt one attempt late
AfterFailureLate(exc, n) ==
    IF exc \notin RetryOn THEN exc
    ELSE IF n > MaxAttempts THEN "RetryError"
    ELSE "retry"

\* @retry without its retry= filter: every exception is retried
AfterAnyFailure(exc, n) == IF n >= MaxAttempts THEN "RetryError" ELSE "retry"

\* What generate_gemini_analysis does with an exception of attempt number n:
\* call again, give up with RetryError, or let the exception through.
AfterFailure(exc, n) ==
    IF exc \notin RetryOn THEN exc
    ELSE IF n >= MaxAttempts THEN "RetryError"
    ELSE "retry"

\* the except clauses without the PermissionDenied branch
HandlerStatusNoAuth(exc) ==
    IF exc = "JSONDecodeError" THEN 502
    ELSE IF exc \in GoogleAPICallErrors THEN
        IF exc = "InvalidArgument" THEN 400 ELSE 503
    ELSE 500

\* The except clauses of the endpoint, in order.
HandlerStatus(exc) ==
    IF exc = "JSONDecodeError" THEN 502
    ELSE IF exc \in GoogleAPICallErrors THEN
        IF exc = "PermissionDenied" THEN 403
        ELSE IF exc = "InvalidArgument" THEN 400
        ELSE 503
    ELSE 500

Sent(r) == [status |-> r.status, body |-> r.body]

\* history: the window of an identity opens with its first request when none
\* is open and lasts RateWindow seconds; n counts its requests, and cached
\* tells that all of them that passed the limiter were served from the cache.
Count(w, t, r) ==
    LET kept == r.probe = "hit" \/ r.raised = "RateLimitExceeded"
    IN  IF w.n = 0 \/ t - w.start >= RateWindow
        THEN [start |-> t, n |-> 1, cached |-> kept]
        ELSE [start |-> w.start, n |-> w.n + 1, cached |-> w.cached /\ kept]

InWindow(client) ==
    IF seen[client].n = 0 \/ now - seen[client].start >= RateWindow
    THEN 0 ELSE seen[client].n

\* The three nested callables a request passes through before its first
\* suspension, innermost first. Each gives the request's record and the cache.

\* analyze_image_endpoint up to its first await: the content-type check.
endpoint_start(r, c) ==
    IF r.upload.content_type \notin AcceptedTypes
    THEN [req |-> [r EXCEPT !.pc = "done", !.status = 415, !.raised = "HTTPException"],
          cache |-> c]
    ELSE [req |-> [r EXCEPT !.pc = "awaiting"], cache |-> c]

\* @cache: key, probe, and on a hit the decoded entry.
cache_wrapper(r, c, t) ==
    LET key == image_key_builder(Namespace, r.upload)
    IN  IF CacheHit(c, key, t)
        THEN LET value == Decode(c[key].data)
                 sent == serialize_response(value)
             IN  [req |-> [r EXCEPT !.pc = "done", !.key = key, !.probe = "hit",
                                    !.result = value, !.status = sent.status,
                                    !.body = sent.body, !.raised = sent.raised,
                                    !.ref = c[key].first],
                  cache |-> c]
        ELSE endpoint_start([r EXCEPT !.key = key, !.probe = "miss"],
                            CacheProbe(c, key, t))

\* the decorators in the other order: the cache runs before the limit is applied
limit_after_cache(r, bucket, c, t) ==
    LET got == cache_wrapper(r, c, t)
    IN  IF OverLimit(bucket)
        THEN [req |-> [got.req EXCEPT !.pc = "done", !.status = 429,
                                      !.raised = "RateLimitExceeded"],
              cache |-> got.cache]
        ELSE got

\* the limit applied only to requests the cache cannot serve
limit_unless_cached(r, bucket, c, t) ==
    IF OverLimit(bucket) /\ ~CacheHit(c, image_key_builder(Namespace, r.upload), t)
    THEN [req |-> [r EXCEPT !.pc = "done", !.status = 429,
                            !.raised = "RateLimitExceeded"],
          cache |-> c]
    ELSE cache_wrapper(r, c, t)

\* @limiter.limit: the hit is counted first; over the cap nothing else runs.
limit_wrapper(r, bucket, c, t) ==
    IF OverLimit(bucket)
    THEN [req |-> [r EXCEPT !.pc = "done", !.status = 429,
                            !.raised = "RateLimitExceeded"],
          cache |-> c]
    ELSE cache_wrapper(r, c, t)

\* history: what a probe for key met in place of a live entry: an entry past
\* its TTL, or nothing where the last process start dropped an entry.
Stale(c, key, t) ==
    IF key \in DOMAIN c
    THEN IF t - c[key].at > Expire THEN "expired" ELSE "no"
    ELSE IF key \in boot.dropped THEN "restart" ELSE "no"

\* A request arrives and runs to its first suspension or to its response.
Arrive(s, client, file) ==
    LET bucket == LimiterHit(buckets[BucketOf(client)], now)
        new == [Idle EXCEPT !.client = client, !.upload = file]
        got == limit_wrapper(new, bucket, cache, now)
    IN  /\ req[s].pc # "awaiting"
        /\ buckets' = [buckets EXCEPT ![BucketOf(client)] = bucket]
        /\ seen' = [seen EXCEPT ![client] =
                Count(seen[client], now, got.req)]
        /\ req' = [req EXCEPT ![s] =
               [got.req EXCEPT !.stale = IF got.req.probe = "none" THEN "no"
                                         ELSE Stale(cache, got.req.key, now)]]
        /\ cache' = got.cache
        /\ UNCHANGED <<now, boot>>

\* One upstream call of generate_gemini_analysis returns or raises, and the
\* request runs on: to the next attempt, or to its response.
Attempt(s, out) ==
    LET r == req[s]
        n == r.calls + 1
        called == [r EXCEPT !.calls = n, !.last = out,
                            !.fails = IF out.kind = "raise" /\ out.exc \in TransientErrors
                                      THEN r.fails + 1 ELSE r.fails]
        failed(exc) == [called EXCEPT !.pc = "done", !.raised = exc,
                                      !.status = HandlerStatus(exc)]
    IN  /\ r.pc = "awaiting"
        /\ IF out.kind = "raise"
           THEN /\ req' = [req EXCEPT ![s] =
                       IF AfterFailure(out.exc, n) = "retry"
                       THEN [called EXCEPT !.waits = Append(r.waits, wait_exponential(n))]
                       ELSE failed(AfterFailure(out.exc, n))]
                /\ cache' = cache
           ELSE IF "json" \notin DOMAIN out.text
           THEN /\ req' = [req EXCEPT ![s] = failed("JSONDecodeError")]
                /\ cache' = cache
           ELSE LET analysis_json == out.text.json
                    sent == serialize_response(analysis_json)
                IN  /\ cache' = CacheSet(cache, r.key, analysis_json, now,
                                         r.upload, Sent(sent))
                    /\ req' = [req EXCEPT ![s] =
                           [called EXCEPT !.pc = "done", !.result = analysis_json,
                                          !.status = sent.status, !.body = sent.body,
                                          !.raised = sent.raised]]
        /\ UNCHANGED <<now, buckets, seen, boot>>

\* Time passes.
Advance(dt, limit) ==
    /\ now + dt <= limit
    /\ now' = now + dt
    /\ UNCHANGED <<buckets, cache, req, seen, boot>>

\* The process stops and starts again: startup() gives FastAPICache a new, empty
\* InMemoryBackend; the limiter's memory storage and the running requests are
\* gone with the old process.
startup ==
    /\ cache' = <<>>
    /\ buckets' = [c \in Clients |-> [count |-> 0, expiry |-> 0]]
    /\ req' = [s \in Slots |-> Idle]
    /\ seen' = [c \in Clients |-> [start |-> 0, n |-> 0, cached |-> TRUE]]
    /\ boot' = [at |-> now, n |-> boot.n + 1, dropped |-> boot.dropped \cup DOMAIN cache]
    /\ UNCHANGED now

\* ------------------------------------------------------------ specifications

\* One request at a time, every kind of upload and of upstream answer, the
\* clock up to and past the cache's TTL.
SpecClients == {"10.0.0.1"}
SpecUploads == {LeafJpeg, CopyPng, OtherJpeg, ScanPdf}
SpecSteps == {Expire, Expire + 1}
Next ==
    \/ \E c \in SpecClients, f \in SpecUploads :
          InWindow(c) < MaxBurst /\ Arrive(1, c, f)
    \/ \E out \in AllOutcomes : Attempt(1, out)
    \/ \E dt \in SpecSteps : Advance(dt, MaxTime)

Spec == Init /\ [][Next]_vars

\* The same steps, where every upstream call that was started comes to an end:
\* it returns, raises, or is cut off by request_options timeout=120 (159).
SpecLive ==
    Init /\ [][Next]_vars /\ WF_vars(\E out \in AllOutcomes : Attempt(1, out))

\* The cache over time and over process restarts.
BootUploads == {LeafJpeg, OtherJpeg, ScanPdf}
BootOutcomes ==
    {Returned(JsonText(GoodDoc)), Returned(ProseText), Raised("ServiceUnavailable")}

NextBoot ==
    \/ \E c \in SpecClients, f \in BootUploads :
          InWindow(c) < MaxBurst /\ Arrive(1, c, f)
    \/ \E out \in BootOutcomes : Attempt(1, out)
    \/ \E dt \in SpecSteps : Advance(dt, MaxTime)
    \/ boot.n < MaxRestarts /\ startup

SpecBoot == Init /\ [][NextBoot]_vars

\* Two request tasks at once, with uploads of the same bytes: each may arrive
\* and await the upstream while the other does.
ConcUploads == {LeafJpeg, CopyPng}
ConcOutcomes ==
    {Returned(JsonText(GoodDoc)), Returned(JsonText(OddSubjectDoc)),
     Raised("ServiceUnavailable")}

NextConc ==
    \/ \E s \in Slots, c \in SpecClients, f \in ConcUploads :
          InWindow(c) < MaxBurst /\ Arrive(s, c, f)
    \/ \E s \in Slots, out \in ConcOutcomes : Attempt(s, out)

SpecConc == Init /\ [][NextConc]_vars

\* The limiter: two identities, bursts past the cap, the clock up to and past
\* the window.
RateUploads == {LeafJpeg, ScanPdf}
RateSteps == {30}
RateOutcomes == {Returned(JsonText(GoodDoc)), Raised("PermissionDenied")}

NextRate ==
    \/ \E c \in Clients, f \in RateUploads :
          InWindow(c) < MaxBucket /\ Arrive(1, c, f)
    \/ \E out \in RateOutcomes : Attempt(1, out)
    \/ \E dt \in RateSteps : Advance(dt, MaxRateTime)

SpecRate == Init /\ [][NextRate]_vars

\* ------------------------------------------------------------------- claims

AllUploads == {LeafJpeg, CopyPng, OtherJpeg, ScanPdf}

Done(s) == req[s].pc = "done"

\* The entries of cache c that hold the bytes of upload f and are at most
\* Expire seconds old at time t.
StoredFor(c, f, t) ==
    {k \in DOMAIN c : c[k].src.content = f.content /\ t - c[k].at <= Expire}

\* C1: a request that is not rate-limited and arrives while an entry stored for
\* its image bytes is at most 24 hours old is answered in that same step, from
\* the cache, with the status and body the storing request was answered, and
\* makes no upstream call.
CacheIdempotence ==
    [][\A s \in Slots, c \in Clients, f \in AllUploads :
          (/\ Arrive(s, c, f)
           /\ req'[s].status # 429
           /\ StoredFor(cache, f, now) # {})
          => /\ req'[s].pc = "done"
             /\ req'[s].probe = "hit"
             /\ req'[s].calls = 0
             /\ \A k \in StoredFor(cache, f, now) : Sent(req'[s]) = cache[k].first]_vars

\* C1 witness: a request served from an entry exactly 24 hours old, with the
\* answer of the request that stored it.
CacheIdempotenceWitness ==
    /\ Done(1) /\ req[1].probe = "hit" /\ req[1].calls = 0
    /\ req[1].status = 200 /\ req[1].body = Dump(GoodDoc)
    /\ req[1].key \in DOMAIN cache
    /\ now - cache[req[1].key].at = Expire
    /\ Sent(req[1]) = cache[req[1].key].first

\* C2: a request is rejected with 429 exactly when its identity has already
\* sent RateCap (15) requests in its open 60-second window: the 16th is
\* rejected, other identities' requests are not counted, and the first request
\* after the window has elapsed is admitted.
RateLimitPerIdentity ==
    [][\A s \in Slots, c \in Clients, f \in AllUploads :
          Arrive(s, c, f) =>
              ((req'[s].status = 429) <=> (InWindow(c) >= RateCap))]_vars

\* C2 witness: the 16th request of an identity in its window is rejected while
\* the other identity has sent requests of its own, fewer than the cap.
RateLimitPerIdentityWitness ==
    \E c, d \in Clients :
        /\ c # d
        /\ Done(1) /\ req[1].client = c /\ req[1].status = 429
        /\ seen[c].n = RateCap + 1
        /\ seen[d].n > 0 /\ seen[d].n < RateCap

\* Every upstream attempt of the finished request of slot s failed with a
\* whitelisted transient failure.
AllTransient(s) ==
    /\ Done(s) /\ req[s].probe = "miss"
    /\ req[s].calls > 0 /\ req[s].fails = req[s].calls

\* C3 (as claimed): when every upstream attempt fails transiently, exactly 3
\* calls are made, the last transient exception reaches the handler unchanged
\* in kind, and the request ends with 503.
RetryExhaustion ==
    \A s \in Slots :
        AllTransient(s) =>
            /\ req[s].calls = MaxAttempts
            /\ req[s].raised = req[s].last.exc
            /\ req[s].status = 503

\* The live entries of cache c at time t: key and stored data.
LiveEntries(c, t) == {<<k, c[k].data>> : k \in {j \in DOMAIN c : t - c[j].at <= Expire}}

Responds(s) ==
    \/ \E c \in Clients, f \in AllUploads : Arrive(s, c, f)
    \/ \E out \in AllOutcomes : Attempt(s, out)

\* C4 (as claimed): a step in which a request ends with an error status leaves
\* the live cache entries as they were.
NoNegativeCaching ==
    [][\A s \in Slots :
          (Responds(s) /\ req'[s].pc = "done" /\ req'[s].status # 200)
          => LiveEntries(cache', now) = LiveEntries(cache, now)]_vars

\* C5 (as claimed): an upload whose declared content type is neither
\* image/jpeg nor image/png is answered 415 with the limiter's counters
\* untouched, no cache key derived, no cache probe and no upstream call.
UnsupportedShortCircuit ==
    [][\A s \in Slots, c \in Clients, f \in AllUploads :
          (Arrive(s, c, f) /\ f.content_type \notin {"image/jpeg", "image/png"})
          => /\ req'[s].status = 415
             /\ buckets' = buckets
             /\ req'[s].key = NoKey
             /\ req'[s].probe = "none"
             /\ req'[s].calls = 0]_vars

IsTransient(out) == out.kind = "raise" /\ out.exc \in TransientErrors

\* C6: a request whose upstream failed transiently k times and then returned
\* a well-formed analysis ends with 200 after exactly k+1 calls, k <= 2; no
\* request ends on a transient failure before its 3rd call.
RetrySuccessBoundary ==
    \A s \in Slots :
        (Done(s) /\ req[s].probe = "miss") =>
            /\ req[s].last = Returned(JsonText(GoodDoc)) =>
                   /\ req[s].status = 200
                   /\ req[s].calls = req[s].fails + 1
                   /\ req[s].fails <= 2
            /\ IsTransient(req[s].last) => req[s].calls = MaxAttempts

\* C6 witness: two transient failures, then success on the third call.
RetrySuccessBoundaryWitness ==
    /\ Done(1) /\ req[1].probe = "miss"
    /\ req[1].last = Returned(JsonText(GoodDoc))
    /\ req[1].fails = 2 /\ req[1].calls = 3 /\ req[1].status = 200

\* The last upstream answer is a failure outside the transient whitelist: an
\* exception of another kind, or text that is not JSON.
NonRetryable(out) ==
    \/ out.kind = "raise" /\ out.exc \notin TransientErrors
    \/ out.kind = "text" /\ "json" \notin DOMAIN out.text

\* C7: a failure outside the transient whitelist ends the request at once: no
\* call follows it, so a request whose first answer is such a failure makes
\* exactly 1 call; the request fails, with 403 for an authentication failure.
NonRetryBoundary ==
    \A s \in Slots :
        (Done(s) /\ req[s].probe = "miss" /\ NonRetryable(req[s].last)) =>
            /\ req[s].calls = req[s].fails + 1
            /\ req[s].fails = 0 => req[s].calls = 1
            /\ req[s].status \notin {0, 200}
            /\ req[s].last = Raised("PermissionDenied") => req[s].status = 403

\* C7 witness: an authentication failure on the first call, answered 403.
NonRetryBoundaryWitness ==
    /\ Done(1) /\ req[1].last = Raised("PermissionDenied")
    /\ req[1].calls = 1 /\ req[1].status = 403

\* C8: the step that rejects a request with 429 derives no key, probes and
\* writes no cache entry, calls no upstream, and leaves the cache as it was.
RateLimitFirst ==
    [][\A s \in Slots, c \in Clients, f \in AllUploads :
          (Arrive(s, c, f) /\ req'[s].status = 429)
          => /\ req'[s].pc = "done"
             /\ req'[s].key = NoKey
             /\ req'[s].probe = "none"
             /\ req'[s].calls = 0
             /\ req'[s].result = NoDoc
             /\ cache' = cache]_vars

\* C8 witness: a request rejected with 429 while the cache holds a live entry
\* for its bytes.
RateLimitFirstWitness ==
    /\ Done(1) /\ req[1].status = 429 /\ req[1].probe = "none"
    /\ StoredFor(cache, req[1].upload, now) # {}

\* A detection of the document has no severity.
LacksSeverity(doc) ==
    \E i \in 1..Len(doc.detections) : "severity" \notin DOMAIN doc.detections[i]

\* C9: a request whose value, returned by the upstream or read from the
\* cache, is JSON with a detection lacking severity is never answered 200: it
\* ends with a response validation error.
SchemaRejection ==
    \A s \in Slots :
        (Done(s) /\ req[s].result # NoDoc /\ LacksSeverity(req[s].result)) =>
            /\ req[s].status = 500
            /\ req[s].raised = "ResponseValidationError"

\* C9 witness: a request served from the cache with a severity-less document,
\* answered 500.
SchemaRejectionWitness ==
    /\ Done(1) /\ req[1].probe = "hit" /\ req[1].result = NoSeverityDoc
    /\ req[1].status = 500

\* C10: the key derived for an upload equals the key of a cache entry exactly
\* when the entry was stored for the same bytes, whatever the filenames and
\* declared content types.
KeyByContentOnly ==
    \A s \in Slots :
        req[s].key # NoKey =>
            \A k \in DOMAIN cache :
                (k = req[s].key) <=> (cache[k].src.content = req[s].upload.content)

\* C10 witness: an upload served from the entry stored by an upload with the
\* same bytes, another filename and another declared content type.
KeyByContentOnlyWitness ==
    /\ Done(1) /\ req[1].probe = "hit" /\ req[1].key \in DOMAIN cache
    /\ cache[req[1].key].src.filename # req[1].upload.filename
    /\ cache[req[1].key].src.content_type # req[1].upload.content_type
    /\ cache[req[1].key].src.content = req[1].upload.content

\* The upstream failures the claim calls service failures other than
\* authentication and invalid argument: the transient ones and any other
\* Google API error.
ServiceFailures == TransientErrors \cup (GoogleAPICallErrors \ {"PermissionDenied", "InvalidArgument"})

\* C11 (as claimed): every failed request ends with the status of its failure
\* class: unsupported format 415, rate limit 429, upstream text that is not
\* JSON 502, authentication failure 403, invalid argument 400, any other
\* upstream service failure 503, any unclassified exception 500.
ErrorStatusMapping ==
    \A s \in Slots :
        (Done(s) /\ req[s].status # 200) =>
            /\ req[s].status \in {415, 429, 502, 403, 400, 503, 500}
            /\ req[s].raised = "RateLimitExceeded" => req[s].status = 429
            /\ req[s].raised = "HTTPException" =>
                   /\ req[s].upload.content_type \notin {"image/jpeg", "image/png"}
                   /\ req[s].status = 415
            /\ req[s].last = Returned(ProseText) => req[s].status = 502
            /\ req[s].last = Raised("PermissionDenied") => req[s].status = 403
            /\ req[s].last = Raised("InvalidArgument") => req[s].status = 400
            /\ (req[s].last.kind = "raise" /\ req[s].last.exc \in ServiceFailures)
                   => req[s].status = 503
            /\ req[s].last = Raised("ValueError") => req[s].status = 500

\* C12 (as claimed): every response sent with 200 has a subjectType among
\* PLANT, PEST and UNKNOWN; an upstream document with another subjectType is
\* rejected by the schema validation.
SubjectTypeEnumeration ==
    \A s \in Slots :
        /\ (Done(s) /\ req[s].status = 200) =>
               req[s].body.subject.subjectType \in {"PLANT", "PEST", "UNKNOWN"}
        /\ (Done(s) /\ req[s].result # NoDoc
                /\ req[s].result.subject.subjectType \notin {"PLANT", "PEST", "UNKNOWN"})
               => req[s].status # 200

\* C13: a request that is not rate-limited is served from the cache only by an
\* entry stored since the last process start and at most 86400 s old; when the
\* entry for its bytes is older, or was dropped by a restart and not stored
\* again, the probe misses, the old entry is gone from the store and an upload
\* of an accepted type goes on to the upstream call. A finished image request
\* whose probe met such an entry has made at least one upstream call.
TTLExpiry ==
    /\ [][\A s \in Slots, c \in Clients, f \in AllUploads :
             (Arrive(s, c, f) /\ req'[s].raised # "RateLimitExceeded") =>
                 LET key == image_key_builder(Namespace, f)
                 IN  /\ req'[s].probe = "hit" =>
                            /\ key \in DOMAIN cache
                            /\ now - cache[key].at <= Expire
                            /\ cache[key].at >= boot.at
                     /\ Stale(cache, key, now) # "no" =>
                            /\ req'[s].probe = "miss"
                            /\ key \notin DOMAIN cache'
                            /\ f.content_type \in AcceptedTypes =>
                                   req'[s].pc = "awaiting" /\ req'[s].calls = 0]_vars
    /\ [](\A s \in Slots :
             (Done(s) /\ req[s].stale # "no"
                 /\ req[s].upload.content_type \in AcceptedTypes)
             => req[s].calls >= 1)

\* C13 witness: a request whose probe met an entry past its TTL, answered 200
\* after an upstream call, in a process that has dropped another entry at its
\* start.
TTLExpiryWitness ==
    /\ Done(1) /\ req[1].stale = "expired" /\ req[1].probe = "miss"
    /\ req[1].calls >= 1 /\ req[1].status = 200
    /\ boot.dropped # {} /\ req[1].key \notin boot.dropped

\* C13, the restart case: a request whose entry the restart dropped, answered
\* 200 after an upstream call.
TTLExpiryRestartReached ==
    /\ Done(1) /\ req[1].stale = "restart" /\ req[1].probe = "miss"
    /\ req[1].calls >= 1 /\ req[1].status = 200

Statuses == {200, 400, 403, 415, 429, 500, 502, 503}

\* C14: no request makes more than 3 upstream calls; a request waiting on the
\* upstream ends, when each of its calls ends, with a response; a finished
\* request has exactly one status, which nothing changes until a new request
\* takes its place.
BoundedRetry ==
    /\ [](\A s \in Slots : req[s].calls <= MaxAttempts)
    /\ \A s \in Slots : (req[s].pc = "awaiting") ~> Done(s)
    /\ [](\A s \in Slots : Done(s) <=> req[s].status \in Statuses)
    /\ [][\A s \in Slots :
             Done(s) => \/ req'[s] = req[s]
                        \/ \E c \in Clients, f \in AllUploads : Arrive(s, c, f)]_vars

\* C14 witness: a request that ended with its one response after the third
\* upstream call failed like the two before it.
BoundedRetryWitness ==
    /\ Done(1) /\ req[1].calls = MaxAttempts /\ req[1].fails = MaxAttempts
    /\ req[1].raised = "RetryError" /\ req[1].status \in Statuses

\* C15 (as claimed): the wait before the second attempt is 2 s, the wait before
\* the third is 4 s, and no wait is below 2 s or above 10 s.
BackoffDoubling ==
    \A s \in Slots :
        /\ Len(req[s].waits) >= 1 => req[s].waits[1] = 2
        /\ Len(req[s].waits) >= 2 => req[s].waits[2] = 4
        /\ \A i \in DOMAIN req[s].waits : req[s].waits[i] >= 2 /\ req[s].waits[i] <= 10

\* C15 (amended): there is one wait before each attempt after the first; the
\* wait before the second attempt is 2 s and the wait before the third is 2 s
\* as well; no wait is below 2 s or above 10 s.
BackoffSchedule ==
    \A s \in Slots :
        /\ req[s].pc = "awaiting" => Len(req[s].waits) = req[s].calls
        /\ (Done(s) /\ req[s].calls >= 1) => Len(req[s].waits) = req[s].calls - 1
        /\ Len(req[s].waits) >= 1 => req[s].waits[1] = 2
        /\ Len(req[s].waits) >= 2 => req[s].waits[2] = 2
        /\ \A i \in DOMAIN req[s].waits : req[s].waits[i] >= 2 /\ req[s].waits[i] <= 10

\* C15 witness: a request that made its third attempt, after two waits.
BackoffScheduleWitness ==
    /\ Done(1) /\ req[1].calls = 3 /\ req[1].fails >= 2
    /\ Len(req[1].waits) = 2

\* C16: every arriving request adds one to the counter of its identity's
\* window, whatever becomes of it - served from the cache, answered 415,
\* forwarded to the upstream or answered 429; so after 15 requests of a window
\* that were all served from the cache, the identity's next request in the
\* window is answered 429 without a cache probe or an upstream call.
QuotaBeforeCache ==
    [][\A s \in Slots, c \in Clients, f \in AllUploads :
          Arrive(s, c, f) =>
              /\ buckets'[BucketOf(c)].count = InWindow(c) + 1
              /\ req'[s].probe = "hit" \/ req'[s].status = 415
                     \/ req'[s].pc = "awaiting" \/ req'[s].status = 429
              /\ (InWindow(c) = RateCap /\ seen[c].cached) =>
                     /\ req'[s].status = 429
                     /\ req'[s].probe = "none"
                     /\ req'[s].calls = 0
                     /\ cache' = cache]_vars

\* C16 witness: the 16th request of a window whose 15 others were all served
\* from the cache, answered 429.
QuotaBeforeCacheWitness ==
    \E c \in Clients :
        /\ Done(1) /\ req[1].client = c /\ req[1].status = 429
        /\ req[1].calls = 0
        /\ seen[c].n = RateCap + 1 /\ seen[c].cached
        /\ buckets[BucketOf(c)].count = RateCap + 1

\* C17: a request that arrives while another with the same bytes awaits the
\* upstream, and before any result is stored, misses and awaits the upstream
\* too; the end of one request's call leaves the other request waiting on its
\* own call; every store replaces the entry of the key with the result just
\* returned; a request is served without an upstream call only by a hit on an
\* entry stored before its probe, and a request that missed and got 200 made
\* between 1 and 3 calls.
NoCoalescing ==
    /\ [][\A s \in Slots, c \in Clients, f \in AllUploads :
             (/\ Arrive(s, c, f)
              /\ req'[s].raised # "RateLimitExceeded"
              /\ image_key_builder(Namespace, f) \notin DOMAIN cache
              /\ \E o \in Slots \ {s} :
                     req[o].pc = "awaiting" /\ req[o].upload.content = f.content)
             => /\ req'[s].probe = "miss"
                /\ f.content_type \in AcceptedTypes => req'[s].pc = "awaiting"
                /\ \A o \in Slots \ {s} : req'[o] = req[o]]_vars
    /\ [][\A s \in Slots, out \in AllOutcomes :
             Attempt(s, out) =>
                 /\ \A o \in Slots \ {s} : req'[o] = req[o]
                 /\ (out.kind = "text" /\ "json" \in DOMAIN out.text) =>
                        /\ req[s].key \in DOMAIN cache'
                        /\ cache'[req[s].key].data = Encode(out.text.json)
                        /\ cache'[req[s].key].src = req[s].upload]_vars
    /\ [][\A s \in Slots, c \in Clients, f \in AllUploads :
             (Arrive(s, c, f) /\ req'[s].probe = "hit") =>
                 /\ image_key_builder(Namespace, f) \in DOMAIN cache
                 /\ req'[s].result = Decode(cache[image_key_builder(Namespace, f)].data)]_vars
    /\ [](\A s \in Slots :
             (Done(s) /\ req[s].status = 200) =>
                 \/ req[s].probe = "hit" /\ req[s].calls = 0
                 \/ req[s].probe = "miss" /\ req[s].calls \in 1..MaxAttempts)

\* C17 witness: two requests with the same bytes both missed, each was
\* answered after calls of its own, with different results, and the cache
\* holds the result of the second, which stored last.
NoCoalescingWitness ==
    /\ Done(1) /\ Done(2)
    /\ req[1].probe = "miss" /\ req[2].probe = "miss"
    /\ req[1].key = req[2].key /\ req[1].upload # req[2].upload
    /\ req[1].status = 200 /\ req[2].status = 200
    /\ req[1].calls = MaxAttempts /\ req[2].calls >= 1
    /\ req[1].result # req[2].result
    /\ cache[req[2].key].data = Encode(req[2].result)
    /\ cache[req[2].key].src = req[2].upload

====
